---- MODULE Spec2Model ----
(***************************************************************************)
(* Prompt-to-SQL converter (src/main.py).                                  *)
(*                                                                         *)
(* Texts are sequences of characters; a character is a one-character       *)
(* string, except the two characters the TLA+ lexer cannot carry inside a  *)
(* string literal, which are named: BackTick and SharpS.                   *)
(***************************************************************************)
EXTENDS Integers, Sequences, FiniteSets

VARIABLES
    \* generate_sql_query's clean-up, line by line
    sanPc,          \* the line of the clean-up that runs next
    rawText,        \* candidates[0].content.parts[0].text of the response
    sql_query,      \* the local sql_query
    preStep,        \* sql_query before the line that ran last
    sanPass,        \* 1: cleaning the response, 2: cleaning the first result again
    firstOut,       \* the result of pass 1
    \* get_available_model
    selPc,          \* "call" before the call, "returned" or "raised" after it
    fetch,          \* what requests.get(list_url) and response.json() give
    model_name,     \* the value get_available_model returned
    \* get_database_schema and execute_query
    dbPc,           \* the line of the running database call, "idle" between calls
    dbOp,           \* "schema", "execute", or "none" before the first call
    dbArg,          \* the sql_query execute_query was called with
    connections,    \* one record for each connection opened so far
    tablesLeft,     \* the tables get_database_schema has still to describe
    dbResult,       \* what the last call returned: "ok" or "error"
    \* main
    mainPc,         \* the line of main that runs next
    hasApiKey,      \* GEMINI_API_KEY is set
    question,       \* the number of the loop iteration
    response,       \* what the completion request of this iteration met
    responseAt,     \* the iteration that made the completion request
    generated,      \* main's sql_query: what generate_sql_query returned
    cleaned,        \* the last generate_sql_query call ran lines 158-167
    answer,         \* the reply to "Execute this query? (y/n)"
    answerAt,       \* the iteration that asked for it
    \* format_results
    fmtPc,          \* "call" before the call, "returned" after it
    column_names,   \* the argument column_names
    results,        \* the argument results: the rows
    fmtOut          \* the text format_results returned

sanVars == <<sanPc, rawText, sql_query, preStep, sanPass, firstOut>>
selVars == <<selPc, fetch, model_name>>
dbVars == <<dbPc, dbOp, dbArg, connections, tablesLeft, dbResult>>
mainVars == <<mainPc, hasApiKey, question, response, responseAt, generated,
              cleaned, answer, answerAt>>

fmtVars == <<fmtPc, column_names, results, fmtOut>>

vars == <<sanVars, selVars, dbVars, mainVars, fmtVars>>

notSan == <<selVars, dbVars, mainVars, fmtVars>>
notSel == <<sanVars, dbVars, mainVars, fmtVars>>
notDb == <<sanVars, selVars, mainVars, fmtVars>>
notFmt == <<sanVars, selVars, dbVars, mainVars>>

-----------------------------------------------------------------------------
(* Characters *)

BackTick == "<backtick>"
SharpS == "<sharp-s>"

LowerLetters ==
    <<"a","b","c","d","e","f","g","h","i","j","k","l","m",
      "n","o","p","q","r","s","t","u","v","w","x","y","z">>

UpperLetters ==
    <<"A","B","C","D","E","F","G","H","I","J","K","L","M",
      "N","O","P","Q","R","S","T","U","V","W","X","Y","Z">>

\* str.strip() and str.isspace(): the whitespace characters of the model
Whitespace == {" ", "\n", "\t"}

\* the argument of strip('"\'')
QuoteChars == {"\"", "'"}

\* the argument of rstrip(';')
SemicolonChars == {";"}

FenceSql == <<BackTick, BackTick, BackTick, "s", "q", "l">>
Fence == <<BackTick, BackTick, BackTick>>
SELECT == <<"S", "E", "L", "E", "C", "T">>

-----------------------------------------------------------------------------
(* Python's str methods, as the clean-up uses them *)

\* str.upper() of one character: a text, since the upper case of the sharp s
\* is the two letters SS
UpperChar(c) ==
    IF c = SharpS THEN <<"S", "S">>
    ELSE IF \E i \in 1..Len(LowerLetters) : LowerLetters[i] = c
         THEN <<UpperLetters[CHOOSE i \in 1..Len(LowerLetters) : LowerLetters[i] = c]>>
         ELSE <<c>>

RECURSIVE Upper(_)
Upper(s) == IF s = <<>> THEN <<>> ELSE UpperChar(Head(s)) \o Upper(Tail(s))

RECURSIVE LStripChars(_, _)
LStripChars(s, chars) ==
    IF s # <<>> /\ Head(s) \in chars THEN LStripChars(Tail(s), chars) ELSE s

RECURSIVE RStripChars(_, _)
RStripChars(s, chars) ==
    IF s # <<>> /\ s[Len(s)] \in chars
    THEN RStripChars(SubSeq(s, 1, Len(s) - 1), chars)
    ELSE s

\* s.strip(chars)
StripChars(s, chars) == RStripChars(LStripChars(s, chars), chars)

\* s.strip()
Strip(s) == StripChars(s, Whitespace)

StartsWith(s, pat) == Len(pat) <= Len(s) /\ SubSeq(s, 1, Len(pat)) = pat

\* s.find(pat): the 0-based index of the first occurrence, -1 when there is none
Find(s, pat) ==
    LET hits == {i \in 0..(Len(s) - Len(pat)) : SubSeq(s, i + 1, i + Len(pat)) = pat}
    IN  IF hits = {} THEN -1 ELSE CHOOSE i \in hits : \A j \in hits : i <= j

\* pat in s
Contains(s, pat) == Find(s, pat) # -1

\* s.replace(old, new): the occurrences of old, left to right, not overlapping
RECURSIVE Replace(_, _, _)
Replace(s, old, new) ==
    IF s = <<>> THEN <<>>
    ELSE IF StartsWith(s, old)
         THEN new \o Replace(SubSeq(s, Len(old) + 1, Len(s)), old, new)
         ELSE <<Head(s)>> \o Replace(Tail(s), old, new)

\* s[i:] for 0 <= i
SliceFrom(s, i) == SubSeq(s, i + 1, Len(s))

-----------------------------------------------------------------------------
(* The lines of the clean-up *)

\* line 153: ['text'].strip()
ExtractText(text) == Strip(text)

\* the clean-up with the bare fence marker forgotten
RemoveTaggedFencesOnly(s) == Strip(Replace(s, FenceSql, <<>>))

\* line 158
RemoveFences(s) == Strip(Replace(Replace(s, FenceSql, <<>>), Fence, <<>>))

\* a quote strip that takes one quote character at most from each end
StripOneQuoteLayer(s) ==
    LET a == IF s # <<>> /\ Head(s) \in QuoteChars THEN 1 ELSE 0
        t == SubSeq(s, a + 1, Len(s))
        b == IF t # <<>> /\ t[Len(t)] \in QuoteChars THEN 1 ELSE 0
    IN  SubSeq(t, 1, Len(t) - b)

\* line 159
StripQuotes(s) == StripChars(s, QuoteChars)

\* lines 162-164: the index found in the upper-cased text cuts the text itself
CutAtSelect(s) ==
    IF Contains(Upper(s), SELECT)
    THEN SliceFrom(s, Find(Upper(s), SELECT))
    ELSE s

\* line 167
StripSemicolon(s) == Strip(RStripChars(s, SemicolonChars))

\* lines 158-169
Sanitize(s) == StripSemicolon(CutAtSelect(StripQuotes(RemoveFences(s))))

-----------------------------------------------------------------------------
(* The response texts of the model: up to MaxChunks chunks *)

MaxChunks == 3

Chunks ==
    { FenceSql, Fence, <<BackTick>>, <<"\"">>, <<"'">>, <<";">>, <<" ">>,
      SELECT, <<"s", "e", "l", "e", "c", "t">>, <<SharpS>>, <<"x">> }

RECURSIVE Concat(_)
Concat(cs) == IF cs = <<>> THEN <<>> ELSE Head(cs) \o Concat(Tail(cs))

Texts == UNION { { Concat(cs) : cs \in [1..n -> Chunks] } : n \in 0..MaxChunks }

-----------------------------------------------------------------------------
(* get_available_model, lines 34-72 *)

ModelsPrefix == <<"m","o","d","e","l","s","/">>

\* line 72, the fallback
DefaultModel == <<"g","e","m","i","n","i","-","1",".","5","-","f","l","a","s","h">>

\* lines 44-50
preferred_models ==
    << <<"g","e","m","i","n","i","-","1",".","5","-","f","l","a","s","h">>,
       <<"g","e","m","i","n","i","-","1",".","5","-","p","r","o">>,
       <<"g","e","m","i","n","i","-","1",".","5","-","f","l","a","s","h","-","l","a","t","e","s","t">>,
       <<"g","e","m","i","n","i","-","p","r","o">>,
       <<"g","e","m","i","n","i","-","1",".","0","-","p","r","o">> >>

\* the model names the catalog of the model draws from
CatalogNames ==
    { ModelsPrefix \o <<"g","e","m","i","n","i","-","1",".","5","-","p","r","o","-","0","0","1">>,
      ModelsPrefix \o <<"g","e","m","i","n","i","-","1",".","0","-","p","r","o">>,
      ModelsPrefix \o <<"g","e","m","i","n","i","-","1",".","5","-","f","l","a","s","h","-","l","a","t","e","s","t">>,
      ModelsPrefix \o <<"g","e","m","i","n","i","-","p","r","o">>,
      ModelsPrefix \o <<"e","m","b","e","d","d","i","n","g","-","0","0","1">>,
      ModelsPrefix \o <<"g","e","m","i","n","i","-","2",".","0","-","f","l","a","s","h">> }

\* no text: a key the JSON object does not have, a search that found nothing
Absent == <<"<absent>">>

\* no list: the key supportedGenerationMethods is missing
NoMethods == {"<absent>"}

MethodLists == { {"generateContent"}, {"embedContent"}, {"generateContent", "countTokens"} }

\* an entry of models_data['models']: a JSON object, or a value that is none
CatalogEntries ==
    [isObject : {TRUE}, name : CatalogNames \cup {Absent},
     supportedGenerationMethods : MethodLists \cup {NoMethods}]
    \cup {[isObject |-> FALSE, name |-> Absent, supportedGenerationMethods |-> NoMethods]}

MaxCatalog == 2

Catalogs == UNION { [1..n -> CatalogEntries] : n \in 0..MaxCatalog }

\* what line 39-42 can meet
FetchKinds ==
    { "network_error",      \* requests.get raises
      "status_not_200",     \* line 40 is false
      "json_error",         \* response.json() raises
      "body_not_object",    \* 'models' in models_data raises
      "no_models_key",      \* line 42 is false
      "models_not_list",    \* the for of line 53 raises
      "ok" }

Fetches ==
    [kind : FetchKinds \ {"ok"}, models : {<<>>}]
    \cup [kind : {"ok"}, models : Catalogs]

\* line 54: model.get('name', '').replace('models/', '')
EntryName(model) ==
    Replace(IF model.name = Absent THEN <<>> ELSE model.name, ModelsPrefix, <<>>)

\* lines 55-56: 'generateContent' in model.get('supportedGenerationMethods', [])
EntryCapable(model) ==
    /\ model.supportedGenerationMethods # NoMethods
    /\ "generateContent" \in model.supportedGenerationMethods

\* lines 52-57
RECURSIVE AvailableModels(_)
AvailableModels(models) ==
    IF models = <<>> THEN <<>>
    ELSE (IF EntryCapable(Head(models)) THEN <<EntryName(Head(models))>> ELSE <<>>)
         \o AvailableModels(Tail(models))

\* lines 61-63, the inner loop: the first available name that holds preferred
RECURSIVE FirstHolding(_, _)
FirstHolding(available, preferred) ==
    IF available = <<>> THEN Absent
    ELSE IF Contains(Head(available), preferred) THEN Head(available)
         ELSE FirstHolding(Tail(available), preferred)

\* the loops swapped: the first available name that holds any preferred name
RECURSIVE FirstPreferredCatalogFirst(_, _)
FirstPreferredCatalogFirst(preferred, available) ==
    IF available = <<>> THEN Absent
    ELSE IF \E i \in 1..Len(preferred) : Contains(Head(available), preferred[i])
         THEN Head(available)
         ELSE FirstPreferredCatalogFirst(preferred, Tail(available))

\* lines 60-63, the outer loop
RECURSIVE FirstPreferred(_, _)
FirstPreferred(preferred, available) ==
    IF preferred = <<>> THEN Absent
    ELSE IF FirstHolding(available, Head(preferred)) # Absent
         THEN FirstHolding(available, Head(preferred))
         ELSE FirstPreferred(Tail(preferred), available)

\* lines 39-67, the body of the try: it returns, raises, or falls through
TryListModels(f) ==
    IF f.kind \in {"network_error", "json_error", "body_not_object", "models_not_list"}
    THEN [kind |-> "raise", value |-> <<>>, error |-> f.kind]
    ELSE IF f.kind \in {"status_not_200", "no_models_key"}
    THEN [kind |-> "fall", value |-> <<>>, error |-> ""]
    ELSE IF \E i \in 1..Len(f.models) : ~f.models[i].isObject
    THEN [kind |-> "raise", value |-> <<>>, error |-> "entry_not_object"]
    ELSE LET available_models == AvailableModels(f.models)
             hit == FirstPreferred(preferred_models, available_models)
         IN  IF hit # Absent
             THEN [kind |-> "return", value |-> hit, error |-> ""]
             ELSE IF available_models # <<>>
             THEN [kind |-> "return", value |-> available_models[1], error |-> ""]
             ELSE [kind |-> "fall", value |-> <<>>, error |-> ""]

\* a handler that catches the errors of requests only
GetAvailableModelCatchingRequestsOnly(f) ==
    LET r == TryListModels(f)
    IN  IF r.kind = "return" THEN [raised |-> FALSE, value |-> r.value]
        ELSE IF r.kind = "raise" /\ r.error # "network_error"
        THEN [raised |-> TRUE, value |-> <<>>]
        ELSE [raised |-> FALSE, value |-> DefaultModel]

\* lines 38-72: except Exception catches what the try raises
get_available_model(f) ==
    LET r == TryListModels(f)
    IN  IF r.kind = "return" THEN [raised |-> FALSE, value |-> r.value]
        ELSE [raised |-> FALSE, value |-> DefaultModel]

SelInit ==
    /\ selPc = "call"
    /\ fetch \in Fetches
    /\ model_name = <<>>

SelIdle ==
    /\ selPc = "idle"
    /\ fetch = [kind |-> "network_error", models |-> <<>>]
    /\ model_name = <<>>

\* line 26: self.model_name = self.get_available_model()
SelGetAvailableModel ==
    /\ selPc = "call"
    /\ LET r == get_available_model(fetch)
       IN  /\ selPc' = IF r.raised THEN "raised" ELSE "returned"
           /\ model_name' = r.value
    /\ UNCHANGED fetch
    /\ UNCHANGED notSel

SelNext == SelGetAvailableModel


-----------------------------------------------------------------------------
(* generate_sql_query, lines 153-169, one line per action *)

SanInit ==
    /\ sanPc = "extract"
    /\ rawText \in Texts
    /\ sql_query = <<>>
    /\ preStep = <<>>
    /\ sanPass = 1
    /\ firstOut = <<>>

SanIdle ==
    /\ sanPc = "idle"
    /\ rawText = <<>>
    /\ sql_query = <<>>
    /\ preStep = <<>>
    /\ sanPass = 1
    /\ firstOut = <<>>

\* line 153
SanExtract ==
    /\ sanPc = "extract"
    /\ sql_query' = ExtractText(rawText)
    /\ preStep' = rawText
    /\ sanPc' = "fences"
    /\ UNCHANGED <<rawText, sanPass, firstOut>>
    /\ UNCHANGED notSan

\* line 158
SanFences ==
    /\ sanPc = "fences"
    /\ sql_query' = RemoveFences(sql_query)
    /\ preStep' = sql_query
    /\ sanPc' = "quotes"
    /\ UNCHANGED <<rawText, sanPass, firstOut>>
    /\ UNCHANGED notSan

\* line 159
SanQuotes ==
    /\ sanPc = "quotes"
    /\ sql_query' = StripQuotes(sql_query)
    /\ preStep' = sql_query
    /\ sanPc' = "select"
    /\ UNCHANGED <<rawText, sanPass, firstOut>>
    /\ UNCHANGED notSan

\* lines 162-164
SanSelect ==
    /\ sanPc = "select"
    /\ sql_query' = CutAtSelect(sql_query)
    /\ preStep' = sql_query
    /\ sanPc' = "semicolon"
    /\ UNCHANGED <<rawText, sanPass, firstOut>>
    /\ UNCHANGED notSan

\* lines 167-169
SanSemicolon ==
    /\ sanPc = "semicolon"
    /\ sql_query' = StripSemicolon(sql_query)
    /\ preStep' = sql_query
    /\ sanPc' = "done"
    /\ UNCHANGED <<rawText, sanPass, firstOut>>
    /\ UNCHANGED notSan

\* the returned query is given to the clean-up (line 158 on) once more
SanReapply ==
    /\ sanPc = "done"
    /\ sanPass = 1
    /\ firstOut' = sql_query
    /\ sanPass' = 2
    /\ sanPc' = "fences"
    /\ UNCHANGED <<rawText, sql_query, preStep>>
    /\ UNCHANGED notSan

SanNext ==
    \/ SanExtract
    \/ SanFences
    \/ SanQuotes
    \/ SanSelect
    \/ SanSemicolon
    \/ SanReapply

-----------------------------------------------------------------------------
(* get_database_schema, lines 74-103, and execute_query, lines 176-194 *)

MaxTables == 2

DbIdle ==
    /\ dbPc = "idle"
    /\ dbOp = "none"
    /\ dbArg = <<>>
    /\ connections = <<>>
    /\ tablesLeft = 0
    /\ dbResult = "none"

\* the connection of the running call is the last one opened
SetLast(seq, field, value) ==
    [seq EXCEPT ![Len(seq)] = [@ EXCEPT ![field] = value]]

\* lines 77 and 179: mysql.connector.connect(**self.db_config)
DbConnect ==
    /\ dbPc = "connect"
    /\ \E ok \in BOOLEAN :
          IF ok
          THEN /\ connections' = Append(connections, [conn |-> "open", cursor |-> "none"])
               /\ dbPc' = "cursor"
          ELSE /\ dbPc' = "except"
               /\ UNCHANGED connections
    /\ UNCHANGED <<dbOp, dbArg, tablesLeft, dbResult>>
    /\ UNCHANGED notDb

\* lines 78 and 180: conn.cursor()
DbCursor ==
    /\ dbPc = "cursor"
    /\ connections' = SetLast(connections, "cursor", "open")
    /\ dbPc' = "execute"
    /\ UNCHANGED <<dbOp, dbArg, tablesLeft, dbResult>>
    /\ UNCHANGED notDb

\* lines 83 and 182: cursor.execute(...)
DbExecute ==
    /\ dbPc = "execute"
    /\ \E ok \in BOOLEAN : dbPc' = IF ok THEN "fetch" ELSE "except"
    /\ UNCHANGED <<dbOp, dbArg, connections, tablesLeft, dbResult>>
    /\ UNCHANGED notDb

\* lines 84-86 and 183-186: cursor.fetchall()
DbFetch ==
    /\ dbPc = "fetch"
    /\ \E ok \in BOOLEAN :
          IF ~ok
          THEN dbPc' = "except" /\ UNCHANGED tablesLeft
          ELSE IF dbOp = "schema"
          THEN \E n \in 0..MaxTables :
                  /\ tablesLeft' = n
                  /\ dbPc' = IF n > 0 THEN "describe" ELSE "close"
          ELSE dbPc' = "close" /\ UNCHANGED tablesLeft
    /\ UNCHANGED <<dbOp, dbArg, connections, dbResult>>
    /\ UNCHANGED notDb

\* line 90: cursor.execute(f"DESCRIBE {table_name}")
DbDescribe ==
    /\ dbPc = "describe"
    /\ \E ok \in BOOLEAN : dbPc' = IF ok THEN "describe_fetch" ELSE "except"
    /\ UNCHANGED <<dbOp, dbArg, connections, tablesLeft, dbResult>>
    /\ UNCHANGED notDb

\* lines 91-95: columns = cursor.fetchall(), and on to the next table
DbDescribeFetch ==
    /\ dbPc = "describe_fetch"
    /\ \E ok \in BOOLEAN :
          IF ok
          THEN /\ tablesLeft' = tablesLeft - 1
               /\ dbPc' = IF tablesLeft > 1 THEN "describe" ELSE "close"
          ELSE /\ dbPc' = "except"
               /\ UNCHANGED tablesLeft
    /\ UNCHANGED <<dbOp, dbArg, connections, dbResult>>
    /\ UNCHANGED notDb

\* lines 97-100 and 188-191: cursor.close(), conn.close(), return
DbClose ==
    /\ dbPc = "close"
    /\ connections' = [connections EXCEPT ![Len(connections)] =
                          [conn |-> "closed", cursor |-> "closed"]]
    /\ dbResult' = "ok"
    /\ dbPc' = "idle"
    /\ UNCHANGED <<dbOp, dbArg, tablesLeft>>
    /\ UNCHANGED notDb

\* lines 102-103 and 193-194: except mysql.connector.Error, return the message
DbExcept ==
    /\ dbPc = "except"
    /\ dbResult' = "error"
    /\ dbPc' = "idle"
    /\ UNCHANGED <<dbOp, dbArg, connections, tablesLeft>>
    /\ UNCHANGED notDb

-----------------------------------------------------------------------------
(* generate_sql_query as a whole, lines 138-174 *)

ApiErrorPrefix == <<"A","P","I"," ","E","r","r","o","r"," ">>
NoResponseText ==
    <<"E","r","r","o","r",":"," ","N","o"," ","r","e","s","p","o","n","s","e"," ",
      "g","e","n","e","r","a","t","e","d">>
NetworkErrorPrefix == <<"N","e","t","w","o","r","k"," ","e","r","r","o","r",":"," ">>
OtherErrorPrefix ==
    <<"E","r","r","o","r"," ","g","e","n","e","r","a","t","i","n","g"," ",
      "q","u","e","r","y",":"," ">>

\* what the POST of line 139 and the reading of its response can meet
Responses ==
    [kind : {"network_error"}, code : {<<>>}, text : {<<"t","i","m","e","o","u","t">>}]
    \cup [kind : {"status_not_200"}, code : {<<"5","0","0">>, <<"4","2","9">>},
          text : {<<>>, <<"S","E","L","E","C","T"," ","x">>}]
    \cup [kind : {"no_candidates"}, code : {<<"2","0","0">>}, text : {<<>>}]
    \cup [kind : {"bad_candidate"}, code : {<<"2","0","0">>}, text : {<<"'","c","o","n","t","e","n","t","'">>}]
    \cup [kind : {"ok"}, code : {<<"2","0","0">>},
          text : { FenceSql \o <<"\n">> \o SELECT \o <<" ", "x", "\n">> \o Fence,
                   <<"s","e","l","e","c","t"," ","x",";">>,
                   <<"E","r","r","o","r">>,
                   <<"x">>,
                   <<>> }]

NoResponse == [kind |-> "none", code |-> <<>>, text |-> <<>>]

generate_sql_query(r) ==
    IF r.kind = "network_error"            \* lines 171-172
    THEN [value |-> NetworkErrorPrefix \o r.text, cleaned |-> FALSE]
    ELSE IF r.kind = "status_not_200"      \* lines 146-147
    THEN [value |-> ApiErrorPrefix \o r.code \o <<":", " ">> \o r.text, cleaned |-> FALSE]
    ELSE IF r.kind = "no_candidates"       \* lines 152-155
    THEN [value |-> NoResponseText, cleaned |-> FALSE]
    ELSE IF r.kind = "bad_candidate"       \* line 153 raises, lines 173-174
    THEN [value |-> OtherErrorPrefix \o r.text, cleaned |-> FALSE]
    ELSE [value |-> Sanitize(ExtractText(r.text)), cleaned |-> TRUE]   \* lines 153-169

-----------------------------------------------------------------------------
(* main, lines 219-291 *)

MaxQuestions == 2

\* str.lower() of one character
LowerChar(c) ==
    IF \E i \in 1..Len(UpperLetters) : UpperLetters[i] = c
    THEN LowerLetters[CHOOSE i \in 1..Len(UpperLetters) : UpperLetters[i] = c]
    ELSE c

Lower(s) == [i \in 1..Len(s) |-> LowerChar(s[i])]

\* line 253
QuitWords == { <<"q","u","i","t">>, <<"e","x","i","t">>, <<"q">> }

\* what the user may type at "> "
Prompts == { <<"Q","u","i","t">>, <<"q"," ">>, <<" ">>, <<"x">> }

\* what the user may type at "Execute this query? (y/n): "
Answers == { <<"y">>, <<" ","Y"," ">>, <<"n">>, <<"y","e","s">>, <<>> }

\* a check of line 264 that forgets the network errors
IsErrorResultWithoutNetwork(text) ==
    \/ StartsWith(text, <<"E","r","r","o","r">>)
    \/ StartsWith(text, <<"A","P","I"," ","E","r","r","o","r">>)

\* line 264
IsErrorResult(text) ==
    \/ StartsWith(text, <<"E","r","r","o","r">>)
    \/ StartsWith(text, <<"A","P","I"," ","E","r","r","o","r">>)
    \/ StartsWith(text, <<"N","e","t","w","o","r","k"," ","e","r","r","o","r">>)

MainInit ==
    /\ mainPc = "start"
    /\ hasApiKey \in BOOLEAN
    /\ question = 0
    /\ response = NoResponse
    /\ responseAt = 0
    /\ generated = <<>>
    /\ cleaned = FALSE
    /\ answer = <<>>
    /\ answerAt = 0

MainIdle ==
    /\ mainPc = "idle"
    /\ hasApiKey = TRUE
    /\ question = 0
    /\ response = NoResponse
    /\ responseAt = 0
    /\ generated = <<>>
    /\ cleaned = FALSE
    /\ answer = <<>>
    /\ answerAt = 0

\* lines 226-234 and 12-32: the constructor, up to the call of get_database_schema
MainConstruct ==
    /\ mainPc = "start"
    /\ IF ~hasApiKey
       THEN /\ mainPc' = "exited"
            /\ UNCHANGED <<selVars, dbVars>>
       ELSE /\ LET r == get_available_model(fetch)
               IN  /\ model_name' = r.value
                   /\ selPc' = IF r.raised THEN "raised" ELSE "returned"
            /\ UNCHANGED fetch
            /\ dbPc' = "connect"
            /\ dbOp' = "schema"
            /\ UNCHANGED <<dbArg, connections, tablesLeft, dbResult>>
            /\ mainPc' = "constructing"
    /\ UNCHANGED <<hasApiKey, question, response, responseAt, generated,
                   cleaned, answer, answerAt>>
    /\ UNCHANGED <<sanVars, fmtVars>>

\* line 32 returns, lines 236-247
MainConstructed ==
    /\ mainPc = "constructing"
    /\ dbPc = "idle"
    /\ mainPc' = "prompt"
    /\ UNCHANGED <<hasApiKey, question, response, responseAt, generated,
                   cleaned, answer, answerAt>>
    /\ UNCHANGED <<sanVars, selVars, dbVars, fmtVars>>

\* lines 250-258
MainReadPrompt ==
    /\ mainPc = "prompt"
    /\ \E typed \in Prompts :
          LET prompt == Strip(typed)
          IN  IF Lower(prompt) \in QuitWords
              THEN mainPc' = "exited" /\ UNCHANGED question
              ELSE IF prompt = <<>>
              THEN mainPc' = "prompt" /\ UNCHANGED question
              ELSE /\ question < MaxQuestions
                   /\ question' = question + 1
                   /\ mainPc' = "generate"
    /\ UNCHANGED <<hasApiKey, response, responseAt, generated, cleaned, answer, answerAt>>
    /\ UNCHANGED <<sanVars, selVars, dbVars, fmtVars>>

\* line 262
MainGenerate ==
    /\ mainPc = "generate"
    /\ \E r \in Responses :
          /\ response' = r
          /\ generated' = generate_sql_query(r).value
          /\ cleaned' = generate_sql_query(r).cleaned
    /\ responseAt' = question
    /\ mainPc' = "check"
    /\ UNCHANGED <<hasApiKey, question, answer, answerAt>>
    /\ UNCHANGED <<sanVars, selVars, dbVars, fmtVars>>

\* lines 264-275
MainCheck ==
    /\ mainPc = "check"
    /\ mainPc' = IF IsErrorResult(generated) THEN "prompt" ELSE "confirm"
    /\ UNCHANGED <<hasApiKey, question, response, responseAt, generated,
                   cleaned, answer, answerAt>>
    /\ UNCHANGED <<sanVars, selVars, dbVars, fmtVars>>

\* lines 278-282: the reply, and the call of execute_query on 'y'
MainConfirm ==
    /\ mainPc = "confirm"
    /\ \E typed \in Answers :
          /\ answer' = typed
          /\ IF Lower(Strip(typed)) = <<"y">>
             THEN /\ mainPc' = "executing"
                  /\ dbPc' = "connect"
                  /\ dbOp' = "execute"
                  /\ dbArg' = generated
             ELSE /\ mainPc' = "prompt"
                  /\ UNCHANGED <<dbPc, dbOp, dbArg>>
    /\ answerAt' = question
    /\ UNCHANGED <<connections, tablesLeft, dbResult>>
    /\ UNCHANGED <<hasApiKey, question, response, responseAt, generated, cleaned>>
    /\ UNCHANGED <<sanVars, selVars, fmtVars>>

\* lines 282-291: execute_query returns, the results or the message are printed
MainShow ==
    /\ mainPc = "executing"
    /\ dbPc = "idle"
    /\ mainPc' = "prompt"
    /\ UNCHANGED <<hasApiKey, question, response, responseAt, generated,
                   cleaned, answer, answerAt>>
    /\ UNCHANGED <<sanVars, selVars, dbVars, fmtVars>>

-----------------------------------------------------------------------------
(* format_results, lines 196-216 *)

MaxColumns == 2
MaxRows == 2

Digits == <<"0","1","2","3","4","5","6","7","8","9">>

\* str(n) of an integer
RECURSIVE NatToText(_)
NatToText(n) ==
    IF n < 10 THEN <<Digits[n + 1]>>
    ELSE NatToText(n \div 10) \o <<Digits[(n % 10) + 1]>>

IntToText(n) == IF n < 0 THEN <<"-">> \o NatToText(-n) ELSE NatToText(n)

\* a cell of a row: an integer or a text
IntCell(n) == [isInt |-> TRUE, int |-> n, text |-> <<>>]
TextCell(t) == [isInt |-> FALSE, int |-> 0, text |-> t]

\* str(val)
Str(val) == IF val.isInt THEN IntToText(val.int) ELSE val.text

ColumnNameValues == { <<"i","d">>, <<"n","a","m","e">> }
CellValues == { IntCell(1), IntCell(22), TextCell(<<"B","o","b">>) }

Max(a, b) == IF a >= b THEN a ELSE b

Repeat(c, n) == [i \in 1..n |-> c]

\* s.ljust(width)
LJust(s, width) == s \o Repeat(" ", width - Len(s))

\* sep.join(parts)
RECURSIVE Join(_, _)
Join(sep, parts) ==
    IF parts = <<>> THEN <<>>
    ELSE IF Len(parts) = 1 THEN parts[1]
    ELSE parts[1] \o sep \o Join(sep, Tail(parts))

\* widths that start from the first row and leave the header out
RECURSIVE WidthsWithoutHeader(_, _)
WidthsWithoutHeader(names, rows) ==
    IF rows = <<>> THEN [i \in 1..Len(names) |-> 0]
    ELSE LET before == WidthsWithoutHeader(names, SubSeq(rows, 1, Len(rows) - 1))
             row == rows[Len(rows)]
         IN  [i \in 1..Len(names) |-> Max(before[i], Len(Str(row[i])))]

\* lines 202-205: the widths after the header and the rows
RECURSIVE Widths(_, _)
Widths(names, rows) ==
    IF rows = <<>> THEN [i \in 1..Len(names) |-> Len(names[i])]
    ELSE LET before == Widths(names, SubSeq(rows, 1, Len(rows) - 1))
             row == rows[Len(rows)]
         IN  [i \in 1..Len(names) |-> Max(before[i], Len(Str(row[i])))]

NoResultsText == <<"N","o"," ","r","e","s","u","l","t","s"," ","f","o","u","n","d",".">>

\* lines 198-216
format_results(names, rows) ==
    IF rows = <<>> THEN NoResultsText
    ELSE LET widths == Widths(names, rows)
             header == Join(<<" ","|"," ">>,
                            [i \in 1..Len(names) |-> LJust(names[i], widths[i])])
             separator == Join(<<"-","+","-">>,
                               [i \in 1..Len(widths) |-> Repeat("-", widths[i])])
             lines == [r \in 1..Len(rows) |->
                          Join(<<" ","|"," ">>,
                               [i \in 1..Len(rows[r]) |-> LJust(Str(rows[r][i]), widths[i])])]
         IN  <<"\n">> \o header \o <<"\n">> \o separator \o <<"\n">> \o Join(<<"\n">>, lines)

FmtInit ==
    /\ fmtPc = "call"
    /\ \E n \in 1..MaxColumns :
          /\ column_names \in [1..n -> ColumnNameValues]
          /\ \E m \in 0..MaxRows : results \in [1..m -> [1..n -> CellValues]]
    /\ fmtOut = <<>>

FmtIdle ==
    /\ fmtPc = "idle"
    /\ column_names = <<>>
    /\ results = <<>>
    /\ fmtOut = <<>>

\* line 286: converter.format_results(column_names, results)
FmtFormatResults ==
    /\ fmtPc = "call"
    /\ fmtOut' = format_results(column_names, results)
    /\ fmtPc' = "returned"
    /\ UNCHANGED <<column_names, results>>
    /\ UNCHANGED notFmt

FmtNext == FmtFormatResults

-----------------------------------------------------------------------------
(* Specifications: the program, and one per component with the other
   components at rest *)

Init ==
    /\ MainInit
    /\ DbIdle
    /\ SanIdle
    /\ FmtIdle
    /\ selPc = "call"
    /\ fetch \in { [kind |-> "network_error", models |-> <<>>],
                   [kind |-> "ok", models |->
                       << [isObject |-> TRUE,
                           name |-> ModelsPrefix \o <<"g","e","m","i","n","i","-","p","r","o">>,
                           supportedGenerationMethods |-> {"generateContent"}] >>] }
    /\ model_name = <<>>

Next ==
    \/ MainConstruct
    \/ MainConstructed
    \/ MainReadPrompt
    \/ MainGenerate
    \/ MainCheck
    \/ MainConfirm
    \/ MainShow
    \/ DbConnect
    \/ DbCursor
    \/ DbExecute
    \/ DbFetch
    \/ DbDescribe
    \/ DbDescribeFetch
    \/ DbClose
    \/ DbExcept

Spec == Init /\ [][Next]_vars

SanOnlyInit == SanInit /\ SelIdle /\ DbIdle /\ MainIdle /\ FmtIdle

SpecSanitizer == SanOnlyInit /\ [][SanNext]_vars

SelOnlyInit == SelInit /\ SanIdle /\ DbIdle /\ MainIdle /\ FmtIdle

FmtOnlyInit == FmtInit /\ SanIdle /\ SelIdle /\ DbIdle /\ MainIdle

SpecFormatter == FmtOnlyInit /\ [][FmtNext]_vars

SpecSelector == SelOnlyInit /\ [][SelNext]_vars

-----------------------------------------------------------------------------
(* Properties of get_available_model *)

\* the entries of the catalog that support generateContent
CapablePlaces(f) ==
    {i \in 1..Len(f.models) :
        /\ f.models[i].isObject
        /\ f.models[i].supportedGenerationMethods # NoMethods
        /\ "generateContent" \in f.models[i].supportedGenerationMethods}

\* the name of an entry without its models/ prefix
BareName(model) ==
    IF model.name = Absent THEN <<>>
    ELSE IF StartsWith(model.name, ModelsPrefix)
         THEN SubSeq(model.name, Len(ModelsPrefix) + 1, Len(model.name))
         ELSE model.name

\* the preferences that some capable entry's name holds
MatchedPreferences(f) ==
    {p \in 1..Len(preferred_models) :
        \E i \in CapablePlaces(f) : Contains(BareName(f.models[i]), preferred_models[p])}

Least(S) == CHOOSE x \in S : \A y \in S : x <= y

ExpectedModel(f) ==
    IF MatchedPreferences(f) # {}
    THEN LET p == Least(MatchedPreferences(f))
             i == Least({k \in CapablePlaces(f) :
                            Contains(BareName(f.models[k]), preferred_models[p])})
         IN  BareName(f.models[i])
    ELSE BareName(f.models[Least(CapablePlaces(f))])

CatalogFetched(f) ==
    /\ f.kind = "ok"
    /\ \A i \in 1..Len(f.models) : f.models[i].isObject

\* C5: with the catalog fetched and a capable entry in it, the call returns the
\* first capable entry holding the earliest matched preference, or the first
\* capable entry when no preference matches: always a capable entry's name
SelectionFollowsPreferenceOrder ==
    (selPc = "returned" /\ CatalogFetched(fetch) /\ CapablePlaces(fetch) # {}) =>
        /\ model_name = ExpectedModel(fetch)
        /\ \E i \in CapablePlaces(fetch) : model_name = BareName(fetch.models[i])

PreferenceBeatsCatalogOrder ==
    /\ selPc = "returned"
    /\ CatalogFetched(fetch)
    /\ Len(fetch.models) = 2
    /\ CapablePlaces(fetch) = {1, 2}
    /\ model_name = BareName(fetch.models[2])
    /\ model_name # BareName(fetch.models[1])
    /\ Contains(BareName(fetch.models[1]), preferred_models[5])

\* the fetch gave no usable catalog
FetchFailed(f) ==
    \/ ~CatalogFetched(f)
    \/ CapablePlaces(f) = {}

\* C6: the call never raises, and returns the default when the fetch fails in
\* any way or the catalog has no capable entry
SelectorNeverRaises ==
    /\ selPc # "raised"
    /\ (selPc = "returned" /\ FetchFailed(fetch)) => model_name = DefaultModel

DefaultAfterParseError ==
    /\ selPc = "returned"
    /\ fetch.kind = "json_error"
    /\ model_name = DefaultModel

-----------------------------------------------------------------------------
(* Properties of the database calls and of main *)

\* C7: when a database call has returned, no connection and no cursor that a
\* call opened is still open
ResourcesReleasedOnReturn ==
    dbPc = "idle" =>
        \A i \in 1..Len(connections) :
            /\ connections[i].conn # "open"
            /\ connections[i].cursor # "open"

\* the values generate_sql_query returns for the completions that failed
ErrorResults == { generate_sql_query(r).value : r \in {x \in Responses : x.kind # "ok"} }

\* C8: execute_query runs only in an iteration whose completion succeeded and
\* whose confirmation was answered y, and a failed completion is neither
\* cleaned nor given to execute_query
ExecutorOnlyAfterConfirmedCompletion ==
    /\ (mainPc = "executing") =>
            /\ dbOp = "execute"
            /\ response.kind = "ok"
            /\ responseAt = question
            /\ cleaned
            /\ answerAt = question
            /\ Lower(Strip(answer)) = <<"y">>
            /\ dbArg = generated
    /\ (dbOp = "execute" /\ dbPc # "idle") => mainPc = "executing"
    /\ (response.kind \notin {"ok", "none"}) => (~cleaned /\ generated \in ErrorResults)
    /\ dbArg \notin ErrorResults

ExecutedAfterConfirmation ==
    /\ mainPc = "executing"
    /\ dbPc = "fetch"
    /\ question = 2
    /\ answer = <<" ", "Y", " ">>
    /\ StartsWith(dbArg, SELECT)

-----------------------------------------------------------------------------
(* Properties of format_results *)

\* the display width of column i: the longest of its header and its cells
DisplayWidth(i) ==
    CHOOSE w \in 0..(Len(column_names[i]) + 8) :
        /\ w >= Len(column_names[i])
        /\ \A r \in 1..Len(results) : w >= Len(Str(results[r][i]))
        /\ \/ w = Len(column_names[i])
           \/ \E r \in 1..Len(results) : w = Len(Str(results[r][i]))

\* where column i starts in a line: after the columns before it and their
\* three-character separators
RECURSIVE ColumnStart(_)
ColumnStart(i) == IF i = 1 THEN 0 ELSE ColumnStart(i - 1) + DisplayWidth(i - 1) + 3

LineLength == ColumnStart(Len(column_names)) + DisplayWidth(Len(column_names))

\* line k of the output, the header being line 0; every line follows a newline
OutputLine(k) == SubSeq(fmtOut, k * (LineLength + 1) + 2, (k + 1) * (LineLength + 1))

Segment(line, i) == SubSeq(line, ColumnStart(i) + 1, ColumnStart(i) + DisplayWidth(i))

Between(line, i) == SubSeq(line, ColumnStart(i) - 2, ColumnStart(i))

Padded(s, w) == s \o [j \in 1..(w - Len(s)) |-> " "]

\* C9: for rows as long as the column list, every header cell and row cell is
\* left-justified to the display width of its column, and the separator has
\* that many dashes for the column
ColumnsAlignedToDisplayWidth ==
    (fmtPc = "returned" /\ results # <<>>) =>
        /\ Len(fmtOut) = (2 + Len(results)) * (LineLength + 1)
        /\ \A k \in 0..(1 + Len(results)) : fmtOut[k * (LineLength + 1) + 1] = "\n"
        /\ \A i \in 1..Len(column_names) :
              /\ Segment(OutputLine(0), i) = Padded(column_names[i], DisplayWidth(i))
              /\ Segment(OutputLine(1), i) = [j \in 1..DisplayWidth(i) |-> "-"]
              /\ \A r \in 1..Len(results) :
                    Segment(OutputLine(1 + r), i) = Padded(Str(results[r][i]), DisplayWidth(i))
        /\ \A i \in 2..Len(column_names) :
              /\ Between(OutputLine(0), i) = <<" ", "|", " ">>
              /\ Between(OutputLine(1), i) = <<"-", "+", "-">>
              /\ \A r \in 1..Len(results) : Between(OutputLine(1 + r), i) = <<" ", "|", " ">>

\* columns id and name, rows (1, Bob) and (22, Bob): the id column is two wide
TwoRowsFormatted ==
    /\ fmtPc = "returned"
    /\ column_names = << <<"i","d">>, <<"n","a","m","e">> >>
    /\ Len(results) = 2
    /\ results[1][1] = IntCell(1)
    /\ results[2][1] = IntCell(22)
    /\ DisplayWidth(1) = 2
    /\ DisplayWidth(2) = 4
    /\ Len(fmtOut) = 4 * 10

-----------------------------------------------------------------------------
(* Properties of the clean-up *)

\* C1: cleaning the result of the clean-up once more gives the same result
SanitizerIdempotent ==
    (sanPc = "done" /\ sanPass = 2) => sql_query = firstOut

\* C2: the result of the clean-up is empty or ends in a character that is
\* neither a semicolon nor whitespace
NoTrailingSemicolonOrWhitespace ==
    sanPc = "done" =>
        \/ sql_query = <<>>
        \/ sql_query[Len(sql_query)] \notin (SemicolonChars \cup Whitespace)

\* the places of s where SELECT stands, letter case ignored
SelectPlaces(s) ==
    {i \in 0..(Len(s) - Len(SELECT)) :
        \A j \in 1..Len(SELECT) : UpperChar(s[i + j]) = <<SELECT[j]>>}

FirstSelectPlace(s) ==
    CHOOSE i \in SelectPlaces(s) : \A j \in SelectPlaces(s) : i <= j

\* C3: when the text holds SELECT in any letter case, the cut leaves the text
\* from its first occurrence on, in the letter case it had, and the returned
\* query begins with that keyword
OutputStartsAtFirstSelect ==
    /\ (sanPc = "semicolon" /\ SelectPlaces(preStep) # {}) =>
            sql_query = SliceFrom(preStep, FirstSelectPlace(preStep))
    /\ (sanPc = "done" /\ SelectPlaces(preStep) # {}) =>
            /\ Len(sql_query) >= Len(SELECT)
            /\ Upper(SubSeq(sql_query, 1, Len(SELECT))) = SELECT

\* C4: the result of cleaning a response that holds fence markers holds no
\* three consecutive backticks
NoFenceInOutput ==
    (sanPc = "done" /\ Contains(rawText, Fence)) => ~Contains(sql_query, Fence)

FencedResponseCleaned ==
    /\ sanPc = "done"
    /\ sanPass = 1
    /\ Contains(rawText, FenceSql)
    /\ StartsWith(sql_query, SELECT)

\* C10 as stated: the quote strip takes at most one quote character from the
\* start and at most one from the end
QuoteStripTakesOneLayer ==
    sanPc = "select" =>
        \E a \in {0, 1}, b \in {0, 1} :
            sql_query = SubSeq(preStep, 1 + a, Len(preStep) - b)

\* C10 amended: the quote strip takes every leading and every trailing quote
\* character: what it removes is quote characters only, and what it leaves
\* neither starts nor ends with one
QuoteStripTakesAllLayers ==
    sanPc = "select" =>
        /\ \E a \in 0..Len(preStep), b \in 0..Len(preStep) :
              /\ a + b <= Len(preStep)
              /\ sql_query = SubSeq(preStep, 1 + a, Len(preStep) - b)
              /\ \A i \in 1..a : preStep[i] \in QuoteChars
              /\ \A i \in (Len(preStep) - b + 1)..Len(preStep) : preStep[i] \in QuoteChars
        /\ \/ sql_query = <<>>
           \/ /\ sql_query[1] \notin QuoteChars
              /\ sql_query[Len(sql_query)] \notin QuoteChars

TwoQuoteLayersStripped ==
    /\ sanPc = "select"
    /\ Len(preStep) >= 3
    /\ preStep[1] \in QuoteChars
    /\ preStep[2] \in QuoteChars
    /\ sql_query = SubSeq(preStep, 3, Len(preStep))
    /\ sql_query # <<>>

====
